---- MODULE Spec2Model ----
(***************************************************************************)
(* A model of the timegate server: src/application.py (the WSGI entry      *)
(* point, the route lists, the two request flows and the two response      *)
(* builders) and src/tgutils.py (request validation and the selector       *)
(* closest).  The cache (core.cache), the error classes (errors), the      *)
(* response validator (core.handler) and the configuration (conf) are      *)
(* imported by these files but are not part of the examined sources; they  *)
(* are modelled from the specification and marked so in MODEL_MAP.json.    *)
(*                                                                         *)
(* Strings are sequences of tokens, so that slicing, replacing and prefix  *)
(* matching are computed and not assumed.  Datetimes are integers.         *)
(***************************************************************************)
EXTENDS Integers, Sequences, FiniteSets, TLC

VARIABLES
    tgate_mapper,   \* application.py:29  ordered (regex, handler_class) list, point flow
    tmap_mapper,    \* application.py:30  ordered (regex, handler_class) list, timeline flow
    CACHE_USE,      \* conf.config.CACHE_USE, read at application.py:61
    STRICT_TIME,    \* conf.config.STRICT_TIME, read at application.py:280
    cache,          \* the process-wide Cache object of application.py:61: its entries
    flights,        \* the provider fetches the cache has started, in order
    now,            \* the last reading of the clock
    archive,        \* the providers' holdings: names the answers getone / getall may give
    horizon,        \* the instant at which the run ends
    req,            \* per request thread: the WSGI environment
    th,             \* per request thread: position and locals of application()
    sel             \* the inputs and results of direct calls of tgutils.closest

vars == <<tgate_mapper, tmap_mapper, CACHE_USE, STRICT_TIME, cache, flights,
          now, archive, horizon, req, th, sel>>

(***************************************************************************)
(* Bounds of the model.                                                    *)
(***************************************************************************)
MaxLen == 3
MaxTime == 2
MaxHandlers == 2
NumRequests == 2

Times == 0..MaxTime

RECURSIVE SeqsUpTo(_, _)
SeqsUpTo(S, n) ==
    IF n = 0 THEN {<< >>}
    ELSE LET shorter == SeqsUpTo(S, n - 1)
         IN  shorter \cup {Append(s, x) : s \in {q \in shorter : Len(q) = n - 1}, x \in S}

(***************************************************************************)
(* Values.                                                                 *)
(***************************************************************************)
NoneVal == <<"None">>
TimedeltaMax == 999999999
TIMEGATESTR == "timegate"
TIMEMAPSTR == "timemap"
HOST == "HOST"
NoError == [kind |-> "", status |-> ""]

Abs(x) == IF x < 0 THEN -x ELSE x

\* The url of the i-th memento of a provider's answer.
MementoUrl(i) == <<"memento", i>>

\* A provider answer holding the timestamps ts, in that order.
Timemap(ts) == [i \in 1..Len(ts) |-> <<MementoUrl(i), ts[i]>>]

IsSorted(timemap) ==
    \A i \in 1..Len(timemap) : \A j \in 1..Len(timemap) :
        i < j => timemap[i][2] <= timemap[j][2]

(***************************************************************************)
(* errors: the exception classes.                                          *)
(***************************************************************************)
IsTimegateError(e) == e.kind \in {"DateTimeError", "URIRequestError", "ProviderError"}

DateTimeError == [kind |-> "DateTimeError", status |-> "4xx"]
URIRequestError(status) == [kind |-> "URIRequestError", status |-> status]
ProviderError == [kind |-> "ProviderError", status |-> "5xx"]

(***************************************************************************)
(* tgutils.py                                                              *)
(***************************************************************************)
date_str(date) == <<"DATEFMT", date>>

validate_req_datetime(datestr, strict) ==
    IF datestr.fmt = "DATEFMT" \/ (~strict /\ datestr.fmt = "fuzzy")
    THEN [raised |-> FALSE, value |-> datestr.t, error |-> NoError]
    ELSE [raised |-> TRUE, value |-> 0, error |-> DateTimeError]

HTTPRE_match(path) == Len(path) > 0 /\ path[1] \in {"http://", "https://"}

replace_spaces(path) == [i \in 1..Len(path) |-> IF path[i] = " " THEN "%20" ELSE path[i]]

\* urlparse raises ValueError on an unbalanced bracket in the network location.
validate_uristr(uristr) ==
    IF \E i \in 1..Len(uristr) : uristr[i] = "["
    THEN [raised |-> TRUE, value |-> << >>]
    ELSE [raised |-> FALSE, value |-> uristr]

validate_req_uri(pathstr, methodstr) ==
    LET stripped == replace_spaces(SubSeq(pathstr, Len(<<methodstr, "/">>) + 1, Len(pathstr)))
        path == IF ~HTTPRE_match(stripped) THEN <<"http://">> \o stripped ELSE stripped
        uri == validate_uristr(path)
    IN  IF uri.raised
        THEN [raised |-> TRUE, value |-> << >>, error |-> URIRequestError("4xx")]
        ELSE [raised |-> FALSE, value |-> uri.value, error |-> NoError]

RECURSIVE closest_from(_, _, _, _, _, _)
closest_from(timemap, accept_datetime, sorted, i, delta, memento) ==
    IF i > Len(timemap) THEN memento
    ELSE LET diff == Abs(accept_datetime - timemap[i][2])
         IN  IF diff < delta
             THEN closest_from(timemap, accept_datetime, sorted, i + 1, diff, timemap[i][1])
             ELSE IF sorted THEN memento
             ELSE closest_from(timemap, accept_datetime, sorted, i + 1, delta, memento)

closest(timemap, accept_datetime, sorted) ==
    closest_from(timemap, accept_datetime, sorted, 1, TimedeltaMax, NoneVal)

(***************************************************************************)
(* application.py: the route lists, built once when the module is loaded.  *)
(* A handler class is a record; a regex is the token prefix it matches     *)
(* (re.match anchors at the start of the string).                          *)
(***************************************************************************)
RECURSIVE build_mapper(_, _)
build_mapper(handler_classes, tmap) ==
    IF handler_classes = << >> THEN << >>
    ELSE LET handler == Head(handler_classes)
             routes == [i \in 1..Len(handler.resources) |-> <<handler.resources[i], handler>>]
         IN  (IF tmap /\ handler.singleonly THEN << >> ELSE routes)
                 \o build_mapper(Tail(handler_classes), tmap)

build_tgate_mapper(handler_classes) == build_mapper(handler_classes, FALSE)

\* Mutant: the singleonly test of line 51 is missing.
build_tmap_mapper_all(handler_classes) == build_mapper(handler_classes, FALSE)

build_tmap_mapper(handler_classes) == build_mapper(handler_classes, TRUE)

regex_match(regex, uri) ==
    Len(regex) <= Len(uri) /\ SubSeq(uri, 1, Len(regex)) = regex

\* Mutant: the scan keeps going and the last matching route wins.
RECURSIVE first_match_last(_, _, _)
first_match_last(mapper, uri, i) ==
    IF i > Len(mapper) THEN 0
    ELSE LET later == first_match_last(mapper, uri, i + 1)
         IN  IF later # 0 THEN later
             ELSE IF regex_match(mapper[i][1], uri) THEN i
             ELSE 0

RECURSIVE first_match(_, _, _)
first_match(mapper, uri, i) ==
    IF i > Len(mapper) THEN 0
    ELSE IF regex_match(mapper[i][1], uri) THEN i
    ELSE first_match(mapper, uri, i + 1)

NoHandler == [name |-> "", resources |-> << >>, singleonly |-> FALSE]

loadhandler(uri, singlerequest) ==
    LET mapper == IF singlerequest THEN tgate_mapper ELSE tmap_mapper
        i == first_match(mapper, uri, 1)
    IN  IF i # 0
        THEN [raised |-> FALSE, value |-> mapper[i][2], error |-> NoError]
        ELSE [raised |-> TRUE, value |-> NoHandler, error |-> URIRequestError("404")]

(***************************************************************************)
(* application.py: the response builders.  A response is what is handed to *)
(* start_response together with the body.                                  *)
(***************************************************************************)
NoDate == << >>
NoHeader == << >>

Link(rel, url, datetime, from, until) ==
    [rel |-> rel, url |-> url, datetime |-> datetime, from |-> from, until |-> until]

resperror(status, message) ==
    [status |-> status, location |-> NoHeader, links |-> << >>, error |-> message]

respmemento(uri_m, uri_r, singleonly) ==
    LET original == Link("original", uri_r, NoDate, NoDate, NoDate)
        timemaplink == Link("timemap", <<HOST, "/", TIMEMAPSTR, "/">> \o uri_r,
                            NoDate, NoDate, NoDate)
    IN  [status |-> "302", location |-> uri_m,
         links |-> IF ~singleonly THEN <<original, timemaplink>> ELSE <<original>>,
         error |-> ""]

\* Mutant: the second test compares with first_date.
RECURSIVE first_last_typo(_, _, _)
first_last_typo(mementos, i, acc) ==
    IF i > Len(mementos) THEN acc
    ELSE LET urlstr == mementos[i][1]
             date == mementos[i][2]
         IN  IF date < acc[2]
             THEN first_last_typo(mementos, i + 1, <<urlstr, date, acc[3], acc[4]>>)
             ELSE IF date > acc[2]
             THEN first_last_typo(mementos, i + 1, <<acc[1], acc[2], urlstr, date>>)
             ELSE first_last_typo(mementos, i + 1, acc)

\* The loop of lines 198-204: (first_url, first_date, last_url, last_date) after
\* the entries i..Len(mementos).
RECURSIVE first_last(_, _, _)
first_last(mementos, i, acc) ==
    IF i > Len(mementos) THEN acc
    ELSE LET urlstr == mementos[i][1]
             date == mementos[i][2]
         IN  IF date < acc[2]
             THEN first_last(mementos, i + 1, <<urlstr, date, acc[3], acc[4]>>)
             ELSE IF date > acc[4]
             THEN first_last(mementos, i + 1, <<acc[1], acc[2], urlstr, date>>)
             ELSE first_last(mementos, i + 1, acc)

\* Mutant: self is listed before timegate.
link_head_swapped(uri_r, from, until) ==
    <<Link("original", uri_r, NoDate, NoDate, NoDate),
      Link("self", <<HOST, "/", TIMEMAPSTR, "/">> \o uri_r, NoDate, from, until),
      Link("timegate", <<HOST, "/", TIMEGATESTR, "/">> \o uri_r, NoDate, NoDate, NoDate)>>

\* Lines 183-187 and 217-220: original, timegate and self.
link_head(uri_r, from, until) ==
    <<Link("original", uri_r, NoDate, NoDate, NoDate),
      Link("timegate", <<HOST, "/", TIMEGATESTR, "/">> \o uri_r, NoDate, NoDate, NoDate),
      Link("self", <<HOST, "/", TIMEMAPSTR, "/">> \o uri_r, NoDate, from, until)>>

resptimemap_links(mementos, uri_r) ==
    LET fl == first_last(mementos, 1,
                  <<mementos[1][1], mementos[1][2], mementos[1][1], mementos[1][2]>>)
        mementos_links == [i \in 1..Len(mementos) |->
                              Link("memento", mementos[i][1], date_str(mementos[i][2]),
                                   NoDate, NoDate)]
        firstlink == Link("first memento", fl[1], date_str(fl[2]), NoDate, NoDate)
        lastlink == Link("last memento", fl[3], date_str(fl[4]), NoDate, NoDate)
    IN  IF mementos # << >>
        THEN link_head(uri_r, date_str(fl[2]), date_str(fl[4]))
                 \o (<<firstlink, lastlink>> \o mementos_links)
        ELSE link_head(uri_r, NoDate, NoDate)

resptimemap(mementos, uri_r) ==
    [status |-> "200", location |-> NoHeader, links |-> resptimemap_links(mementos, uri_r),
     error |-> ""]

(***************************************************************************)
(* The providers (handler.getone, handler.getall): a call fails or answers *)
(* a list of (url, datetime) pairs in the provider's own order.            *)
(***************************************************************************)
Failure == [raised |-> TRUE, value |-> << >>]

Answers(lists) == {Failure} \cup {[raised |-> FALSE, value |-> Timemap(ts)] : ts \in lists}

\* What a provider may answer, by the name of its holdings.
ProviderAnswers(holdings) ==
    IF holdings = "any" THEN Answers(SeqsUpTo(Times, MaxLen))
    ELSE IF holdings = "few" THEN Answers({<< >>, <<0>>})
    ELSE {[raised |-> FALSE, value |-> Timemap(<<0>>)]}

(***************************************************************************)
(* application.py: the request flows.  A thread runs application() for one *)
(* request; the calls into the shared cache are steps of their own.        *)
(***************************************************************************)
RECURSIVE lstrip(_)
lstrip(path) ==
    IF path # << >> /\ Head(path) = "/" THEN lstrip(Tail(path)) ELSE path

\* Mutant: the timemap branch has no except clause.
application_except_timegate_only(req_type, e) ==
    req_type = TIMEGATESTR /\ IsTimegateError(e)

\* Whether the except clause around the flow of req_type catches e.
application_except(req_type, e) == IsTimegateError(e)

\* The thread's locals once the exception e has left timegate() or timemap().
Raise(me, e, ops) ==
    [me EXCEPT !.pc = "done",
               !.log = @ \o ops,
               !.raised = e.kind,
               !.uncaught = ~application_except(me.flow, e),
               !.responses = IF application_except(me.flow, e)
                             THEN Append(@, resperror(e.status, e.kind))
                             ELSE @]

\* closest as timegate() calls it: the third argument keeps its default.
timegate_closest(mementos, accept_datetime) == closest(mementos, accept_datetime, TRUE)

\* The thread's locals after lines 291-294 of timegate(), or line 313 of timemap().
Return(me, mementos, ops) ==
    [me EXCEPT !.pc = "done",
               !.log = @ \o ops,
               !.got = TRUE,
               !.mementos = mementos,
               !.responses =
                   IF me.flow = TIMEGATESTR
                   THEN Append(@, respmemento(timegate_closest(mementos, me.accept_datetime),
                                              me.uri_r, me.handler.singleonly))
                   ELSE Append(@, resptimemap(mementos, me.uri_r))]

\* core.handler.validate_response: a failed provider call raises.
validate_response(answer) ==
    IF answer.raised
    THEN [raised |-> TRUE, value |-> << >>, error |-> ProviderError]
    ELSE [raised |-> FALSE, value |-> answer.value, error |-> NoError]

timegate(t, req_path, req_datetime) ==
    LET d == validate_req_datetime(req_datetime, STRICT_TIME)
        u == validate_req_uri(req_path, TIMEGATESTR)
        h == loadhandler(u.value, TRUE)
        me1 == [th[t] EXCEPT !.flow = TIMEGATESTR]
        me2 == [me1 EXCEPT !.accept_datetime = d.value]
        me3 == [me2 EXCEPT !.uri_r = u.value, !.routed = TRUE]
        me4 == [me3 EXCEPT !.handler = h.value]
    IN  /\ UNCHANGED <<cache, flights, now>>
        /\ IF d.raised
           THEN th' = [th EXCEPT ![t] = Raise(me1, d.error, <<"validate_req_datetime">>)]
           ELSE IF u.raised
           THEN th' = [th EXCEPT ![t] =
                          Raise(me2, u.error,
                                <<"validate_req_datetime", "validate_req_uri">>)]
           ELSE IF h.raised
           THEN th' = [th EXCEPT ![t] =
                          Raise(me3, h.error,
                                <<"validate_req_datetime", "validate_req_uri",
                                  "loadhandler">>)]
           ELSE IF h.value.singleonly
           THEN \E answer \in ProviderAnswers(archive) :
                   LET ops == <<"validate_req_datetime", "validate_req_uri",
                                "loadhandler", "getone">>
                       m == validate_response(answer)
                   IN  IF m.raised
                       THEN th' = [th EXCEPT ![t] = Raise(me4, m.error, ops)]
                       ELSE th' = [th EXCEPT ![t] = Return(me4, m.value, ops)]
           ELSE th' = [th EXCEPT ![t] =
                          [me4 EXCEPT !.pc = "cache",
                                      !.log = @ \o <<"validate_req_datetime",
                                                     "validate_req_uri", "loadhandler",
                                                     "cache.get_until">>]]

timemap(t, req_path) ==
    LET u == validate_req_uri(req_path, TIMEMAPSTR)
        h == loadhandler(u.value, FALSE)
        me1 == [th[t] EXCEPT !.flow = TIMEMAPSTR]
        me2 == [me1 EXCEPT !.uri_r = u.value, !.routed = TRUE]
        me3 == [me2 EXCEPT !.handler = h.value]
    IN  /\ UNCHANGED <<cache, flights, now>>
        /\ IF u.raised
           THEN th' = [th EXCEPT ![t] = Raise(me1, u.error, <<"validate_req_uri">>)]
           ELSE IF h.raised
           THEN th' = [th EXCEPT ![t] =
                          Raise(me2, h.error, <<"validate_req_uri", "loadhandler">>)]
           ELSE th' = [th EXCEPT ![t] =
                          [me3 EXCEPT !.pc = "cache",
                                      !.log = @ \o <<"validate_req_uri", "loadhandler",
                                                     "cache.get_all">>]]

\* Mutant: POST is served too.
method_allowed_post(req_met) == req_met \in {"GET", "HEAD", "POST"}

\* Line 89: the methods that are served.
method_allowed(req_met) == req_met = "GET" \/ req_met = "HEAD"

application(t) ==
    /\ th[t].pc = "start"
    /\ UNCHANGED <<tgate_mapper, tmap_mapper, CACHE_USE, STRICT_TIME, archive, horizon, req, sel>>
    /\ LET env == req[t]
           req_path == lstrip(env.PATH_INFO)
           req_type == IF req_path = << >> THEN "" ELSE Head(req_path)
       IN  IF ~method_allowed(env.REQUEST_METHOD)
           THEN /\ th' = [th EXCEPT ![t] =
                             [@ EXCEPT !.pc = "done",
                                       !.responses = Append(@, resperror("405", "method"))]]
                /\ UNCHANGED <<cache, flights, now>>
           ELSE IF req_type = TIMEGATESTR
           THEN timegate(t, req_path, env.HTTP_ACCEPT_DATETIME)
           ELSE IF req_type = TIMEMAPSTR
           THEN timemap(t, req_path)
           ELSE /\ th' = [th EXCEPT ![t] =
                             [@ EXCEPT !.pc = "done",
                                       !.responses = Append(@, resperror("400", "service"))]]
                /\ UNCHANGED <<cache, flights, now>>

(***************************************************************************)
(* core.cache.Cache, as the specification describes it: per resource an    *)
(* entry (timeline, fetchedAt, at most one fetch in flight); get_until is  *)
(* served from the entry when fetchedAt >= the requested time, get_all     *)
(* when the entry is not older than the tolerance; a caller that finds a   *)
(* fetch in flight waits for its result; a disabled cache fetches on every *)
(* call and shares nothing.                                                *)
(***************************************************************************)
CacheTolerance == 1

NoEntry == [valid |-> FALSE, timeline |-> << >>, fetchedAt |-> 0, inFlight |-> 0]

cache_entry(uri) == IF uri \in DOMAIN cache THEN cache[uri] ELSE NoEntry

cache_put(uri, entry) ==
    [u \in DOMAIN cache \cup {uri} |-> IF u = uri THEN entry ELSE cache[u]]

cache_fresh(entry, flow, accept_datetime, clock) ==
    /\ entry.valid
    /\ IF flow = TIMEGATESTR
       THEN entry.fetchedAt >= accept_datetime
       ELSE clock - entry.fetchedAt <= CacheTolerance

\* Mutant: every caller that needs a fetch starts its own.
cache_joins_never(inFlight) == FALSE

\* Whether a caller that finds the fetch inFlight under way waits for it.
cache_joins(inFlight) == inFlight # 0

\* The fetches for uri that have ended.
completed(uri) ==
    Cardinality({f \in 1..Len(flights) : flights[f].uri = uri /\ flights[f].state # "pending"})

\* Entry into cache.get_until (point flow) or cache.get_all (timeline flow).
cache_get(t) ==
    /\ th[t].pc = "cache"
    /\ UNCHANGED <<tgate_mapper, tmap_mapper, CACHE_USE, STRICT_TIME, archive, horizon, req, sel>>
    /\ \E clock \in {n \in Times : now <= n /\ n <= horizon} :
        LET me == [th[t] EXCEPT !.epoch = completed(th[t].uri_r)]
            entry == cache_entry(me.uri_r)
            flight == Len(flights) + 1
            started == Append(flights, [uri |-> me.uri_r, state |-> "pending",
                                        timeline |-> << >>])
        IN  /\ now' = clock
            /\ IF ~CACHE_USE
               THEN /\ flights' = started
                    /\ th' = [th EXCEPT ![t] = [me EXCEPT !.pc = "fetch", !.served = "fetch",
                                                          !.flight = flight]]
                    /\ UNCHANGED cache
               ELSE IF cache_fresh(entry, me.flow, me.accept_datetime, clock)
               THEN /\ th' = [th EXCEPT ![t] =
                                 Return([me EXCEPT !.served = "hit"], entry.timeline, << >>)]
                    /\ UNCHANGED <<cache, flights>>
               ELSE IF cache_joins(entry.inFlight)
               THEN /\ th' = [th EXCEPT ![t] = [me EXCEPT !.pc = "wait", !.served = "wait",
                                                          !.flight = entry.inFlight]]
                    /\ UNCHANGED <<cache, flights>>
               ELSE /\ flights' = started
                    /\ cache' = cache_put(me.uri_r, [entry EXCEPT !.inFlight = flight])
                    /\ th' = [th EXCEPT ![t] = [me EXCEPT !.pc = "fetch", !.served = "fetch",
                                                          !.flight = flight]]

\* The fetch: handler.getall(uri_r) is called and answers.
cache_fetch(t) ==
    /\ th[t].pc = "fetch"
    /\ UNCHANGED <<tgate_mapper, tmap_mapper, CACHE_USE, STRICT_TIME, archive, horizon, req, sel>>
    /\ \E clock \in {n \in Times : now <= n /\ n <= horizon} : \E answer \in ProviderAnswers(archive) :
        LET me == th[t]
            m == validate_response(answer)
            entry == cache_entry(me.uri_r)
        IN  /\ now' = clock
            /\ flights' = [flights EXCEPT ![me.flight] =
                              [@ EXCEPT !.state = IF m.raised THEN "fail" ELSE "ok",
                                        !.timeline = m.value]]
            /\ cache' = IF ~CACHE_USE THEN cache
                        ELSE IF m.raised
                        THEN cache_put(me.uri_r, [entry EXCEPT !.inFlight = 0])
                        ELSE cache_put(me.uri_r, [valid |-> TRUE, timeline |-> m.value,
                                                  fetchedAt |-> clock, inFlight |-> 0])
            /\ th' = [th EXCEPT ![t] =
                         IF m.raised THEN Raise(me, m.error, <<"getall">>)
                         ELSE Return(me, m.value, <<"getall">>)]

\* A waiter takes the result of the fetch it waited for.
cache_wait(t) ==
    /\ th[t].pc = "wait"
    /\ flights[th[t].flight].state # "pending"
    /\ UNCHANGED <<tgate_mapper, tmap_mapper, CACHE_USE, STRICT_TIME, archive, horizon, req, sel,
                   cache, flights, now>>
    /\ th' = [th EXCEPT ![t] =
                 IF flights[@.flight].state = "fail"
                 THEN Raise(@, ProviderError, << >>)
                 ELSE Return(@, flights[@.flight].timeline, << >>)]

(***************************************************************************)
(* The inputs.                                                             *)
(***************************************************************************)
Pany == <<"http://">>
Pa == <<"http://", "a">>
Pb == <<"http://", "b">>

ResourceLists == {<<Pany>>, <<Pb, Pa>>}

\* The handler classes found at load time, in load order.
Registries ==
    {[i \in 1..Len(hs) |-> [name |-> i, resources |-> hs[i].resources,
                            singleonly |-> hs[i].singleonly]] :
        hs \in SeqsUpTo([resources : ResourceLists, singleonly : BOOLEAN], MaxHandlers)}

FlowRegistries ==
    {<< >>,
     <<[name |-> 1, resources |-> <<Pb, Pa>>, singleonly |-> FALSE],
       [name |-> 2, resources |-> <<Pany>>, singleonly |-> TRUE]>>}

OneRegistry == {<<[name |-> 1, resources |-> <<Pany>>, singleonly |-> FALSE]>>}

Rests == {<<"http://", "a">>, <<"c">>, <<"http://", "[">>, <<"a", " ", "c">>}

Path(type, rest) == <<"/", type, "/">> \o rest

Headers ==
    {[fmt |-> "absent", t |-> 0], [fmt |-> "junk", t |-> 0]}
        \cup [fmt : {"DATEFMT", "fuzzy"}, t : Times]

Environ(methods, types, rests, headers) ==
    {[REQUEST_METHOD |-> m, PATH_INFO |-> Path(ty, r), HTTP_ACCEPT_DATETIME |-> h] :
        m \in methods, ty \in types, r \in rests, h \in headers}

AllRequests ==
    Environ({"GET", "HEAD", "POST"}, {TIMEGATESTR, TIMEMAPSTR, "other"}, Rests, Headers)

RouteRequests ==
    Environ({"GET"}, {TIMEGATESTR, TIMEMAPSTR}, {<<"http://", "a">>, <<"c">>},
            {[fmt |-> "DATEFMT", t |-> 0]})

CacheRequests ==
    Environ({"GET"}, {TIMEGATESTR}, {<<"http://", "a">>},
            [fmt : {"DATEFMT"}, t : {0, MaxTime}])
        \cup Environ({"GET"}, {TIMEMAPSTR}, {<<"http://", "a">>}, {[fmt |-> "absent", t |-> 0]})

NewThread ==
    [pc |-> "start", flow |-> "", routed |-> FALSE, uri_r |-> << >>, accept_datetime |-> 0,
     handler |-> NoHandler, flight |-> 0, served |-> "", epoch |-> 0, got |-> FALSE,
     mementos |-> << >>, raised |-> "", uncaught |-> FALSE, responses |-> << >>,
     log |-> << >>]

NoSel == [timemap |-> << >>, accept_datetime |-> 0, result |-> << >>]

InitWith(registries, requests, threads, holdings, end, cache_use, strict_time) ==
    /\ \E handler_classes \in registries :
          /\ tgate_mapper = build_tgate_mapper(handler_classes)
          /\ tmap_mapper = build_tmap_mapper(handler_classes)
    /\ CACHE_USE \in cache_use
    /\ STRICT_TIME \in strict_time
    /\ cache = << >>
    /\ flights = << >>
    /\ now = 0
    /\ archive = holdings
    /\ horizon = end
    /\ \E n \in threads : req \in [1..n -> requests]
    /\ th = [t \in DOMAIN req |-> NewThread]
    /\ sel = NoSel

\* One request of any kind; several requests that reach the cache for one
\* resource; several requests against any registry.
Init ==
    \/ InitWith(FlowRegistries, AllRequests, {1}, "any", 0, BOOLEAN, BOOLEAN)
    \/ InitWith(OneRegistry, CacheRequests, {NumRequests}, "few", MaxTime, BOOLEAN, {TRUE})
    \/ InitWith(Registries, RouteRequests, {NumRequests}, "one", 0, {TRUE}, {TRUE})

Next ==
    \/ \E t \in DOMAIN th : application(t)
    \/ \E t \in DOMAIN th : cache_get(t)
    \/ \E t \in DOMAIN th : cache_fetch(t)
    \/ \E t \in DOMAIN th : cache_wait(t)

Spec == Init /\ [][Next]_vars

(***************************************************************************)
(* Direct calls of tgutils.closest on one timemap, with either value of    *)
(* its sorted argument.                                                    *)
(***************************************************************************)
closest_call(sorted) ==
    /\ sorted \notin DOMAIN sel.result
    /\ sel' = [sel EXCEPT !.result =
                  [b \in DOMAIN sel.result \cup {sorted} |->
                      IF b = sorted THEN closest(sel.timemap, sel.accept_datetime, sorted)
                      ELSE sel.result[b]]]
    /\ UNCHANGED <<tgate_mapper, tmap_mapper, CACHE_USE, STRICT_TIME, cache, flights,
                   now, archive, horizon, req, th>>

InitClosest ==
    /\ tgate_mapper = << >>
    /\ tmap_mapper = << >>
    /\ CACHE_USE = TRUE
    /\ STRICT_TIME = TRUE
    /\ cache = << >>
    /\ flights = << >>
    /\ now = 0
    /\ archive = "any"
    /\ horizon = 0
    /\ req = << >>
    /\ th = << >>
    /\ \E answer \in ProviderAnswers("any") : \E accept_datetime \in Times :
          /\ ~answer.raised
          /\ sel = [timemap |-> answer.value, accept_datetime |-> accept_datetime,
                    result |-> << >>]

NextClosest == \E sorted \in BOOLEAN : closest_call(sorted)

SpecClosest == InitClosest /\ [][NextClosest]_vars

(***************************************************************************)
(* The claims.                                                             *)
(***************************************************************************)
Threads == DOMAIN th

Done(t) == th[t].pc = "done"

Response(t) == th[t].responses[1]

Distance(timeline, target, i) == Abs(target - timeline[i][2])

Nearest(timeline, target) ==
    {i \in 1..Len(timeline) :
        \A j \in 1..Len(timeline) : Distance(timeline, target, i) <= Distance(timeline, target, j)}

Least(S) == CHOOSE i \in S : \A j \in S : i <= j

FirstNearest(timeline, target) == timeline[Least(Nearest(timeline, target))][1]

Matching(mapper, uri) == {i \in 1..Len(mapper) : regex_match(mapper[i][1], uri)}

Rels(links) == [i \in 1..Len(links) |-> links[i].rel]

Earliest(mementos) ==
    CHOOSE d \in {mementos[i][2] : i \in 1..Len(mementos)} :
        \A i \in 1..Len(mementos) : d <= mementos[i][2]

Latest(mementos) ==
    CHOOSE d \in {mementos[i][2] : i \in 1..Len(mementos)} :
        \A i \in 1..Len(mementos) : d >= mementos[i][2]

\* C1: in the point flow, the redirect for a non-empty timeline in whatever
\* order goes to the first entry, in iteration order, of those whose absolute
\* time distance to the requested time is minimal over the whole timeline.
C1_PointFlowPicksFirstNearest ==
    \A t \in Threads :
        (Done(t) /\ th[t].flow = TIMEGATESTR /\ th[t].got /\ th[t].mementos # << >>)
            => Response(t).location = FirstNearest(th[t].mementos, th[t].accept_datetime)

\* C2: on a timeline sorted in non-decreasing timestamp order (repeated
\* timestamps allowed), closest with sorted=True and closest with sorted=False
\* return the same memento.
C2_EarlyExitEqualsFullScan ==
    (IsSorted(sel.timemap) /\ DOMAIN sel.result = BOOLEAN)
        => sel.result[TRUE] = sel.result[FALSE]

\* The requests all went through the cache for one resource, each entered the
\* cache before any fetch for that resource had ended, and none was served
\* from the cached entry.
ConcurrentFetchers ==
    /\ \A t \in Threads : Done(t) /\ th[t].served \in {"fetch", "wait"} /\ th[t].epoch = 0
    /\ \A t, u \in Threads : th[t].uri_r = th[u].uri_r

OneFetchSharedByAll ==
    /\ \A t \in Threads : completed(th[t].uri_r) = 1
    /\ \A t, u \in Threads : th[t].got = th[u].got /\ th[t].mementos = th[u].mementos

\* C3 as stated: N concurrent requests for one resource that all require a
\* fetch cause exactly one getall call and observe the same timeline.
C3_SingleFetch == ConcurrentFetchers => OneFetchSharedByAll

\* C3 amended: the same, when the cache is enabled (CACHE_USE).
C3_SingleFetchWhenEnabled == (CACHE_USE /\ ConcurrentFetchers) => OneFetchSharedByAll

C3_Witness ==
    /\ CACHE_USE
    /\ ConcurrentFetchers
    /\ Cardinality(Threads) = NumRequests
    /\ \E t \in Threads : th[t].served = "wait" /\ th[t].got /\ th[t].mementos # << >>
    /\ \E t, u \in Threads : th[t].flow = TIMEGATESTR /\ th[u].flow = TIMEMAPSTR

\* C4: in the point flow an empty timeline from the provider or the cache ends
\* in an error response, never in a 302 redirect.
C4_EmptyTimelineIsAnError ==
    \A t \in Threads :
        (Done(t) /\ th[t].flow = TIMEGATESTR /\ th[t].got /\ th[t].mementos = << >>)
            => (Response(t).status # "302" /\ Response(t).error # "")

\* The status application() answers for each failure.
MappedStatus(t) ==
    CASE th[t].raised = "DateTimeError" -> {"4xx"}
      [] th[t].raised = "URIRequestError" -> IF th[t].routed THEN {"404"} ELSE {"4xx"}
      [] th[t].raised = "ProviderError" -> {"5xx"}
      [] OTHER -> {"405", "400", "302", "200"}

OnlySingleonlyMatch(uri) ==
    /\ Matching(tgate_mapper, uri) # {}
    /\ \A i \in Matching(tgate_mapper, uri) : tgate_mapper[i][2].singleonly

\* C6: a singleonly handler is never resolved for the timeline flow; when the
\* only handlers matching the URI are singleonly, the timeline flow fails with
\* URIRequestError (404) while loadhandler(uri, True) resolves the handler.
C6_SingleonlyExcludedFromTimemap ==
    /\ \A i \in 1..Len(tmap_mapper) : ~tmap_mapper[i][2].singleonly
    /\ \A t \in Threads :
          (th[t].routed /\ th[t].flow = TIMEMAPSTR) =>
              /\ ~th[t].handler.singleonly
              /\ OnlySingleonlyMatch(th[t].uri_r) =>
                    /\ th[t].raised = "URIRequestError"
                    /\ Response(t).status = "404"
                    /\ ~loadhandler(th[t].uri_r, TRUE).raised
                    /\ loadhandler(th[t].uri_r, TRUE).value.singleonly
    /\ \A t \in Threads :
          (th[t].routed /\ th[t].flow = TIMEGATESTR /\ OnlySingleonlyMatch(th[t].uri_r)) =>
              (th[t].handler.singleonly /\ th[t].raised # "URIRequestError")

C6_Witness ==
    \E t, u \in Threads :
        /\ th[t].routed /\ th[t].flow = TIMEMAPSTR /\ Done(t)
        /\ th[u].routed /\ th[u].flow = TIMEGATESTR /\ Done(u)
        /\ th[t].uri_r = th[u].uri_r
        /\ OnlySingleonlyMatch(th[t].uri_r)
        /\ Response(t).status = "404"
        /\ Response(u).status = "302"

\* C7: loadhandler returns the handler of the earliest-registered matching
\* route of the selected list, whatever later routes match; the same URI and
\* flag always resolve to the same handler; the no-route error is raised
\* exactly when no route of the selected list matches.
C7_FirstMatchInRegistrationOrder ==
    /\ \A t \in Threads :
          th[t].routed =>
              LET mapper == IF th[t].flow = TIMEGATESTR THEN tgate_mapper ELSE tmap_mapper
                  M == Matching(mapper, th[t].uri_r)
              IN  /\ (M = {}) <=> (th[t].raised = "URIRequestError")
                  /\ M = {} => (th[t].handler = NoHandler /\ Response(t).status = "404")
                  /\ M # {} => th[t].handler = mapper[Least(M)][2]
    /\ \A t, u \in Threads :
          (th[t].routed /\ th[u].routed /\ th[t].flow = th[u].flow
              /\ th[t].uri_r = th[u].uri_r)
          => (th[t].handler = th[u].handler
                 /\ (th[t].raised = "URIRequestError") = (th[u].raised = "URIRequestError"))

C7_Witness ==
    \E t, u \in Threads :
        /\ t # u /\ th[t].routed /\ th[u].routed
        /\ th[t].flow = TIMEGATESTR /\ th[u].flow = TIMEGATESTR
        /\ th[t].uri_r = th[u].uri_r
        /\ Cardinality(Matching(tgate_mapper, th[t].uri_r)) >= 2
        /\ LET i == Least(Matching(tgate_mapper, th[t].uri_r))
           IN  /\ tgate_mapper[i][1] = Pany
               /\ th[t].handler = tgate_mapper[i][2]
               /\ \E j \in Matching(tgate_mapper, th[t].uri_r) :
                     tgate_mapper[j][1] = Pa /\ tgate_mapper[j][2] # tgate_mapper[i][2]

\* C8: a request whose method is neither GET nor HEAD is answered 405, and
\* nothing is parsed, routed, asked of a provider or of the cache for it.
C8_BadMethodIs405 ==
    \A t \in Threads :
        (req[t].REQUEST_METHOD \notin {"GET", "HEAD"}) =>
            /\ th[t].log = << >>
            /\ th[t].flight = 0
            /\ th[t].pc \in {"start", "done"}
            /\ Done(t) => th[t].responses = <<resperror("405", "method")>>

C8_Witness ==
    \E t \in Threads :
        /\ req[t].REQUEST_METHOD = "POST"
        /\ req[t].PATH_INFO = Path(TIMEGATESTR, <<"http://", "a">>)
        /\ req[t].HTTP_ACCEPT_DATETIME.fmt = "DATEFMT"
        /\ tgate_mapper # << >>
        /\ Done(t)
        /\ Response(t).status = "405"

\* C9: the timeline listing of an empty timeline is a 200 whose body holds
\* exactly original, timegate, self, in that order, self without from/until.
C9_EmptyTimemap ==
    \A t \in Threads :
        (Done(t) /\ th[t].flow = TIMEMAPSTR /\ th[t].got /\ th[t].mementos = << >>) =>
            /\ Response(t).status = "200"
            /\ Rels(Response(t).links) = <<"original", "timegate", "self">>
            /\ Response(t).links[1].url = th[t].uri_r
            /\ Response(t).links[3].from = NoDate
            /\ Response(t).links[3].until = NoDate

C9_Witness ==
    \E t \in Threads :
        /\ Done(t) /\ th[t].flow = TIMEMAPSTR /\ th[t].got /\ th[t].mementos = << >>
        /\ Response(t).status = "200"

\* C10: the listing of a non-empty timeline in any order holds, after
\* original, timegate and self (from = the minimum timestamp, until = the
\* maximum), a first memento relation with the minimum timestamp, a last
\* memento relation with the maximum, then one memento relation per entry in
\* timeline order.
C10_FirstLastAndMementos ==
    \A t \in Threads :
        (Done(t) /\ th[t].flow = TIMEMAPSTR /\ th[t].got /\ th[t].mementos # << >>) =>
            LET mementos == th[t].mementos
                links == Response(t).links
            IN  /\ Response(t).status = "200"
                /\ Len(links) = 5 + Len(mementos)
                /\ SubSeq(Rels(links), 1, 5) =
                       <<"original", "timegate", "self", "first memento", "last memento">>
                /\ links[3].from = date_str(Earliest(mementos))
                /\ links[3].until = date_str(Latest(mementos))
                /\ links[4].datetime = date_str(Earliest(mementos))
                /\ links[5].datetime = date_str(Latest(mementos))
                /\ \E i \in 1..Len(mementos) :
                      mementos[i] = <<links[4].url, Earliest(mementos)>>
                /\ \E i \in 1..Len(mementos) :
                      mementos[i] = <<links[5].url, Latest(mementos)>>
                /\ \A i \in 1..Len(mementos) :
                      links[5 + i] = Link("memento", mementos[i][1],
                                          date_str(mementos[i][2]), NoDate, NoDate)

C10_Witness ==
    \E t \in Threads :
        /\ Done(t) /\ th[t].flow = TIMEMAPSTR /\ th[t].got
        /\ Len(th[t].mementos) >= 3
        /\ th[t].mementos[1][2] > Earliest(th[t].mementos)
        /\ th[t].mementos[1][2] < Latest(th[t].mementos)
        /\ th[t].mementos[2][2] = Latest(th[t].mementos)

====
